---- MODULE Spec2Model ----
(***************************************************************************)
(* Model of src/app.py: the Streamlit script "Sequential Engineering       *)
(* Drawing Analyzer".  One run of the script from top to bottom is one     *)
(* tick.  The session state (st.session_state) survives between runs; the  *)
(* messages a run writes to the page, the rerun request and the calls it   *)
(* makes to its collaborators are recorded per run.                        *)
(***************************************************************************)
EXTENDS Integers, Sequences, FiniteSets, TLC

\* ---------------------------------------------------------------- bounds
\* Pages of an uploaded document.
MaxPages == 2
\* Embedded images listed on one page.
MaxImgs == 3
\* Images of one document whose doc.extract_image raises.
MaxBad == 1

\* min(5, ...) on line 141: drawings analysed per session.
BatchCap == 5

\* ------------------------------------------------------------- documents
\* pdf_file is None until the user uploads a file.
None == "None"
UploadedFile == "UploadedFile"

RECURSIVE SeqsUpTo(_, _)
\* All sequences over S of length 0..n.
SeqsUpTo(S, n) ==
    IF n = 0 THEN {<<>>}
    ELSE LET shorter == SeqsUpTo(S, n - 1)
         IN  shorter \cup {Append(q, x) : q \in {r \in shorter : Len(r) = n - 1}, x \in S}

\* A page is its image list (page.get_images()): TRUE is an image that
\* doc.extract_image returns, FALSE one on which it raises.
Pages == SeqsUpTo(BOOLEAN, MaxImgs)

RECURSIVE BadCount(_)
BadCount(pages) ==
    IF pages = <<>> THEN 0
    ELSE Cardinality({i \in 1..Len(Head(pages)) : ~Head(pages)[i]}) + BadCount(Tail(pages))

\* The bytes of an upload, by what fitz makes of them:
\*   openable  fitz.open succeeds (line 24)
\*   pages     the pages of the document, in document order
\*   failPage  0, or the 1-based page whose doc[page_num] / get_images()
\*             raises (lines 27-28): a document that opens but does not parse.
Unopenable == [openable |-> FALSE, pages |-> <<>>, failPage |-> 0]

PageSeqs == {q \in SeqsUpTo(Pages, MaxPages) : BadCount(q) <= MaxBad}

\* The documents: the one that does not open, those that parse to the end,
\* and those whose last page raises.  What a document holds on and after
\* the page that raises is never read, so that page is its last, and empty.
Docs ==
    {Unopenable}
    \cup {[openable |-> TRUE, pages |-> ps, failPage |-> 0] : ps \in PageSeqs}
    \cup {[openable |-> TRUE, pages |-> Append(ps, <<>>), failPage |-> Len(ps) + 1] :
              ps \in {q \in PageSeqs : Len(q) < MaxPages}}

\* ----------------------------------------------------------------- state
VARIABLES
    processed,               \* st.session_state.processed
    drawings_list,           \* st.session_state.analyzer.drawings_list
    current_analysis_index,  \* st.session_state.current_analysis_index
    analyzed_drawings,       \* st.session_state.analyzed_drawings
    pdf_file,                \* the file_uploader widget: None or UploadedFile
    pdf_bytes,               \* the bytes line 122 read last (what was extracted)
    out,                     \* messages the last run wrote to the page
    rerun,                   \* the last run ended in st.rerun()
    shown,                   \* the results the last run's display block rendered
    extraction,              \* the last run's extraction: none/ok/read_error/open_error/parse_error
    analysis,                \* the last run's analyze_drawing call: none/ok/error
    analyzed_now             \* the drawings the last run passed to analyze_drawing

vars == <<processed, drawings_list, current_analysis_index, analyzed_drawings,
          pdf_file, pdf_bytes, out, rerun, shown, extraction, analysis, analyzed_now>>

\* ---------------------------------------------- SequentialDrawingAnalyzer
\* The xref of an image stands for the image itself: the image listed at
\* position img_idx of page page_num (both 0-based, as the loops count).
Xref(page_num, img_idx) == <<page_num, img_idx>>

\* Lines 36-41: the record appended for one extracted image.
DrawingRecord(page_num, img_idx) ==
    [page |-> page_num + 1,
     drawing_number |-> img_idx + 1,
     xref |-> Xref(page_num, img_idx),
     image_bytes |-> Xref(page_num, img_idx)]

RECURSIVE ExtractImagesRenumbers(_, _, _, _)
\* Faulty variant of ExtractImages: numbers a drawing by the count of images
\* of the page extracted so far instead of by img_idx.
ExtractImagesRenumbers(image_list, page_num, img_idx, acc) ==
    IF img_idx >= Len(image_list) THEN acc
    ELSE IF image_list[img_idx + 1]
         THEN LET n == Cardinality({i \in 1..Len(acc.list) : acc.list[i].page = page_num + 1})
              IN  ExtractImagesRenumbers(image_list, page_num, img_idx + 1,
                      [acc EXCEPT !.list = Append(@,
                          [page |-> page_num + 1,
                           drawing_number |-> n + 1,
                           xref |-> Xref(page_num, img_idx),
                           image_bytes |-> Xref(page_num, img_idx)])])
         ELSE ExtractImagesRenumbers(image_list, page_num, img_idx + 1,
                                     [acc EXCEPT !.warned = TRUE])

RECURSIVE ExtractImages(_, _, _, _)
\* Lines 30-44: the loop over one page's image list, from img_idx on.  An
\* image whose extract_image raises is warned about and left out; the loop
\* goes on with the next img_idx.  Returns the list and the warnings.
ExtractImages(image_list, page_num, img_idx, acc) ==
    IF img_idx >= Len(image_list) THEN acc
    ELSE IF image_list[img_idx + 1]
         THEN ExtractImages(image_list, page_num, img_idx + 1,
                            [acc EXCEPT !.list = Append(@, DrawingRecord(page_num, img_idx))])
         ELSE ExtractImages(image_list, page_num, img_idx + 1,
                            [acc EXCEPT !.warned = TRUE])

RECURSIVE ExtractPages(_, _, _)
\* Lines 26-47: the loop over the pages, from page_num on.  An exception of
\* doc[page_num] or get_images() leaves the loop for the handler of line 49
\* with what was appended so far still in self.drawings_list.
ExtractPages(doc, page_num, acc) ==
    IF page_num >= Len(doc.pages) THEN [acc EXCEPT !.outcome = "ok"]
    ELSE IF doc.failPage = page_num + 1 THEN [acc EXCEPT !.outcome = "parse_error"]
    ELSE ExtractPages(doc, page_num + 1,
                      ExtractImages(doc.pages[page_num + 1], page_num, 0, acc))

\* Lines 21-51: extract_drawings_list(pdf_bytes) on an analyzer whose
\* drawings_list is `list`.  Every exception is caught inside (line 49), so
\* the call always returns: the new drawings_list, what happened, and the
\* returned count (0 from the handler).
extract_drawings_list(list, doc) ==
    LET start == [list |-> list, warned |-> FALSE, outcome |-> "open_error"]
        r == IF doc.openable THEN ExtractPages(doc, 0, start) ELSE start
    IN  [list |-> r.list,
         warned |-> r.warned,
         outcome |-> r.outcome,
         total |-> IF r.outcome = "ok" THEN Len(r.list) ELSE 0]

\* Lines 53-99: analyze_drawing(drawing_info).  ok is whether Image.open and
\* the Gemini call both return; otherwise the handler of line 97 reports the
\* error and returns None.  The return value is a sequence: <<result>>, or
\* <<>> for None, so that "if analysis_result:" is "analysis_result # <<>>".
analyze_drawing(drawing_info, ok) ==
    IF ok
    THEN <<[page |-> drawing_info.page,
            drawing_number |-> drawing_info.drawing_number,
            image |-> drawing_info.image_bytes,
            analysis |-> "response.text"]>>
    ELSE <<>>

\* ------------------------------------------------------------ the script
Min(a, b) == IF a <= b THEN a ELSE b

\* The bytes of a file that was never read.
NoBytes == Unopenable

\* Lines 104-112 and the start of a run: the session state as the previous
\* run left it, an empty page, no calls made yet.
Start ==
    [processed |-> processed,
     list |-> drawings_list,
     index |-> current_analysis_index,
     results |-> analyzed_drawings,
     bytes |-> pdf_bytes,
     out |-> {},
     rerun |-> FALSE,
     shown |-> <<>>,
     extraction |-> "none",
     analysis |-> "none",
     analyzed_now |-> <<>>]

\* Faulty variant of ExtractionBlock: the first pass runs on every run,
\* whether processed is set or not.
ExtractionBlockEveryRun(s, doc, readable) ==
    IF ~readable
    THEN [s EXCEPT !.processed = FALSE,
                   !.extraction = "read_error",
                   !.out = @ \cup {"process_error"}]
    ELSE LET r == extract_drawings_list(s.list, doc)
         IN  [s EXCEPT !.bytes = doc,
                       !.list = r.list,
                       !.processed = TRUE,
                       !.extraction = r.outcome,
                       !.out = @ \cup {"summary"}
                                 \cup (IF r.warned THEN {"image_warning"} ELSE {})
                                 \cup (IF r.outcome = "ok" THEN {} ELSE {"extract_error"})]

\* Lines 119-137: the first pass.  readable is whether pdf_file.getvalue()
\* returns; when it raises, the handler of line 135 runs before
\* extract_drawings_list was called.
ExtractionBlock(s, doc, readable) ==
    IF s.processed THEN s
    ELSE IF ~readable
    THEN [s EXCEPT !.processed = FALSE,
                   !.extraction = "read_error",
                   !.out = @ \cup {"process_error"}]
    ELSE LET r == extract_drawings_list(s.list, doc)
         IN  [s EXCEPT !.bytes = doc,
                       !.list = r.list,
                       !.processed = TRUE,
                       !.extraction = r.outcome,
                       !.out = @ \cup {"summary"}
                                 \cup (IF r.warned THEN {"image_warning"} ELSE {})
                                 \cup (IF r.outcome = "ok" THEN {} ELSE {"extract_error"})]

\* Faulty variant of StoreResult: a failed analysis still advances the index.
StoreResultCountsFailure(s, analysis_result, remaining_drawings) ==
    [s EXCEPT !.results = @ \o analysis_result,
              !.index = @ + 1,
              !.analysis = IF analysis_result # <<>> THEN "ok" ELSE "error",
              !.rerun = (analysis_result # <<>> /\ remaining_drawings > 1),
              !.out = IF analysis_result = <<>> THEN @ \cup {"analysis_error"}
                      ELSE IF remaining_drawings > 1 THEN @ ELSE @ \cup {"complete"}]

\* Faulty variant of StoreResult: a failed analysis asks for a rerun (a retry).
StoreResultRetries(s, analysis_result, remaining_drawings) ==
    IF analysis_result # <<>>
    THEN [s EXCEPT !.results = @ \o analysis_result,
                   !.index = @ + 1,
                   !.analysis = "ok",
                   !.rerun = (remaining_drawings > 1),
                   !.out = IF remaining_drawings > 1 THEN @ ELSE @ \cup {"complete"}]
    ELSE [s EXCEPT !.analysis = "error",
                   !.rerun = TRUE,
                   !.out = @ \cup {"analysis_error"}]

\* Faulty variant of StoreResult: every successful analysis asks for a rerun.
StoreResultAlwaysReruns(s, analysis_result, remaining_drawings) ==
    IF analysis_result # <<>>
    THEN [s EXCEPT !.results = @ \o analysis_result,
                   !.index = @ + 1,
                   !.analysis = "ok",
                   !.rerun = TRUE]
    ELSE [s EXCEPT !.analysis = "error",
                   !.out = @ \cup {"analysis_error"}]

\* Faulty variant of StoreResult: the rerun test is "remaining_drawings > 0",
\* so the last drawing of the batch asks for a rerun too.
StoreResultRerunsAtLast(s, analysis_result, remaining_drawings) ==
    IF analysis_result # <<>>
    THEN [s EXCEPT !.results = @ \o analysis_result,
                   !.index = @ + 1,
                   !.analysis = "ok",
                   !.rerun = (remaining_drawings > 0),
                   !.out = IF remaining_drawings > 0 THEN @ ELSE @ \cup {"complete"}]
    ELSE [s EXCEPT !.analysis = "error",
                   !.out = @ \cup {"analysis_error"}]

\* Faulty variant of StoreResult: a failed analysis moves on to the next
\* drawing without storing a result for the failed one.
StoreResultSkipsFailed(s, analysis_result, remaining_drawings) ==
    IF analysis_result # <<>>
    THEN [s EXCEPT !.results = @ \o analysis_result,
                   !.index = @ + 1,
                   !.analysis = "ok",
                   !.rerun = (remaining_drawings > 1),
                   !.out = IF remaining_drawings > 1 THEN @ ELSE @ \cup {"complete"}]
    ELSE [s EXCEPT !.index = @ + 1,
                   !.analysis = "error",
                   !.out = @ \cup {"analysis_error"}]

\* Faulty variant of StoreResult: the rerun test is "remaining_drawings > 2",
\* so the chain of reruns stops one drawing short of the batch.
StoreResultStopsOneShort(s, analysis_result, remaining_drawings) ==
    IF analysis_result # <<>>
    THEN [s EXCEPT !.results = @ \o analysis_result,
                   !.index = @ + 1,
                   !.analysis = "ok",
                   !.rerun = (remaining_drawings > 2),
                   !.out = IF remaining_drawings > 2 THEN @ ELSE @ \cup {"complete"}]
    ELSE [s EXCEPT !.analysis = "error",
                   !.out = @ \cup {"analysis_error"}]

\* Lines 152-163: what the run does with the value analyze_drawing returned.
StoreResult(s, analysis_result, remaining_drawings) ==
    IF analysis_result # <<>>
    THEN [s EXCEPT !.results = @ \o analysis_result,
                   !.index = @ + 1,
                   !.analysis = "ok",
                   !.rerun = (remaining_drawings > 1),
                   !.out = IF remaining_drawings > 1 THEN @ ELSE @ \cup {"complete"}]
    ELSE [s EXCEPT !.analysis = "error",
                   !.out = @ \cup {"analysis_error"}]

\* Faulty variant of ProcessingBlock: no cap of five on the batch.
ProcessingBlockNoCap(s, ok) ==
    IF ~s.processed THEN s
    ELSE LET remaining_drawings == Len(s.list) - s.index
         IN  IF remaining_drawings > 0
             THEN LET current_drawing == s.list[s.index + 1]
                  IN  StoreResult([s EXCEPT !.out = @ \cup {"analyzing"},
                                            !.analyzed_now = Append(@, current_drawing)],
                                  analyze_drawing(current_drawing, ok),
                                  remaining_drawings)
             ELSE s

\* Faulty variant of ProcessingBlock: the batch is one drawing too long.
ProcessingBlockOffByOne(s, ok) ==
    IF ~s.processed THEN s
    ELSE LET remaining_drawings == Min(BatchCap + 1, Len(s.list)) - s.index
         IN  IF remaining_drawings > 0
             THEN LET current_drawing == s.list[s.index + 1]
                  IN  StoreResult([s EXCEPT !.out = @ \cup {"analyzing"},
                                            !.analyzed_now = Append(@, current_drawing)],
                                  analyze_drawing(current_drawing, ok),
                                  remaining_drawings)
             ELSE IF Len(s.list) > BatchCap
             THEN [s EXCEPT !.out = @ \cup {"excess"}]
             ELSE s

\* Faulty variant of ProcessingBlock: analyses the drawings from the end of
\* the batch backwards.
ProcessingBlockBackwards(s, ok) ==
    IF ~s.processed THEN s
    ELSE LET cap == Min(BatchCap, Len(s.list))
             remaining_drawings == cap - s.index
         IN  IF remaining_drawings > 0
             THEN LET current_drawing == s.list[cap - s.index]
                  IN  StoreResult([s EXCEPT !.out = @ \cup {"analyzing"},
                                            !.analyzed_now = Append(@, current_drawing)],
                                  analyze_drawing(current_drawing, ok),
                                  remaining_drawings)
             ELSE IF Len(s.list) > BatchCap
             THEN [s EXCEPT !.out = @ \cup {"excess"}]
             ELSE s

\* Faulty variant of ProcessingBlock: the test of line 165 is ">= 5", so a
\* document of exactly five drawings is told that more exist.
ProcessingBlockExcessAtFive(s, ok) ==
    IF ~s.processed THEN s
    ELSE LET remaining_drawings == Min(BatchCap, Len(s.list)) - s.index
         IN  IF remaining_drawings > 0
             THEN LET current_drawing == s.list[s.index + 1]
                  IN  StoreResult([s EXCEPT !.out = @ \cup {"analyzing"},
                                            !.analyzed_now = Append(@, current_drawing)],
                                  analyze_drawing(current_drawing, ok),
                                  remaining_drawings)
             ELSE IF Len(s.list) >= BatchCap
             THEN [s EXCEPT !.out = @ \cup {"excess"}]
             ELSE s

\* Lines 140-166: one step of the sequential processing.
ProcessingBlock(s, ok) ==
    IF ~s.processed THEN s
    ELSE LET remaining_drawings == Min(BatchCap, Len(s.list)) - s.index
         IN  IF remaining_drawings > 0
             THEN LET current_drawing == s.list[s.index + 1]
                  IN  StoreResult([s EXCEPT !.out = @ \cup {"analyzing"},
                                            !.analyzed_now = Append(@, current_drawing)],
                                  analyze_drawing(current_drawing, ok),
                                  remaining_drawings)
             ELSE IF Len(s.list) > BatchCap
             THEN [s EXCEPT !.out = @ \cup {"excess"}]
             ELSE s

\* Faulty variant of DisplayBlock: renders the latest result only.
DisplayBlockLastOnly(s) ==
    IF s.results # <<>>
    THEN [s EXCEPT !.shown = <<s.results[Len(s.results)]>>, !.out = @ \cup {"results"}]
    ELSE s

\* Lines 168-183: the display of everything analysed so far.
DisplayBlock(s) ==
    IF s.results # <<>>
    THEN [s EXCEPT !.shown = s.results, !.out = @ \cup {"results"}]
    ELSE s

\* Faulty variant of Script: the run ends after the first pass, so extraction
\* and the first analysis never share a run.
ScriptReturnsAfterExtraction(file, doc, readable, ok) ==
    IF file = None
    THEN [Start EXCEPT !.out = @ \cup {"upload_prompt"}]
    ELSE IF ~Start.processed
    THEN DisplayBlock(ExtractionBlock(Start, doc, readable))
    ELSE LET s == ProcessingBlock(Start, ok)
         IN  IF s.rerun THEN s ELSE DisplayBlock(s)

\* Faulty variant of Script: the processing block is outside the test of
\* line 117, so it runs without a file too.
ScriptProcessesWithoutFile(file, doc, readable, ok) ==
    IF file = None
    THEN LET s == ProcessingBlock(Start, ok)
         IN  [s EXCEPT !.out = @ \cup {"upload_prompt"}]
    ELSE LET s == ProcessingBlock(ExtractionBlock(Start, doc, readable), ok)
         IN  IF s.rerun THEN s ELSE DisplayBlock(s)

\* Lines 117-185: one run of the script.  st.rerun() ends the run where it
\* is called (line 161), so the display block is not reached by that run.
Script(file, doc, readable, ok) ==
    IF file = None
    THEN [Start EXCEPT !.out = @ \cup {"upload_prompt"}]
    ELSE LET s == ProcessingBlock(ExtractionBlock(Start, doc, readable), ok)
         IN  IF s.rerun THEN s ELSE DisplayBlock(s)

\* A run of the script with the uploader holding `file`.
Run(file, doc, readable, ok) ==
    LET s == Script(file, doc, readable, ok)
    IN  /\ pdf_file' = file
        /\ processed' = s.processed
        /\ drawings_list' = s.list
        /\ current_analysis_index' = s.index
        /\ analyzed_drawings' = s.results
        /\ pdf_bytes' = s.bytes
        /\ out' = s.out
        /\ rerun' = s.rerun
        /\ shown' = s.shown
        /\ extraction' = s.extraction
        /\ analysis' = s.analysis
        /\ analyzed_now' = s.analyzed_now

\* What a run can meet on line 122: getvalue() raises, or it returns the
\* uploaded bytes.  A run that does not reach line 122 reads nothing.
Reads(file) ==
    IF processed \/ file = None
    THEN {[readable |-> TRUE, doc |-> NoBytes]}
    ELSE {[readable |-> FALSE, doc |-> NoBytes]}
         \cup {[readable |-> TRUE, doc |-> d] : d \in Docs}

Init ==
    /\ processed = FALSE
    /\ drawings_list = <<>>
    /\ current_analysis_index = 0
    /\ analyzed_drawings = <<>>
    /\ pdf_file = None
    /\ pdf_bytes = NoBytes
    /\ out = {}
    /\ rerun = FALSE
    /\ shown = <<>>
    /\ extraction = "none"
    /\ analysis = "none"
    /\ analyzed_now = <<>>

\* The user puts a file into the uploader: the script runs with it.
Upload ==
    \E read \in Reads(UploadedFile), ok \in BOOLEAN :
        Run(UploadedFile, read.doc, read.readable, ok)

\* The user clears the uploader: the script runs without a file.
Remove ==
    /\ pdf_file # None
    /\ \E read \in Reads(None), ok \in BOOLEAN :
        Run(None, read.doc, read.readable, ok)

\* Any other interaction: the script runs with the uploader as it is.  (While
\* a rerun asked for by st.rerun() is pending, that run is AutoRerun.)
Interact ==
    /\ ~rerun
    /\ \E read \in Reads(pdf_file), ok \in BOOLEAN :
        Run(pdf_file, read.doc, read.readable, ok)

\* The run that st.rerun() asked for (line 161).
AutoRerun ==
    /\ rerun
    /\ \E read \in Reads(pdf_file), ok \in BOOLEAN :
        Run(pdf_file, read.doc, read.readable, ok)

Next == Upload \/ Remove \/ Interact \/ AutoRerun

Spec == Init /\ [][Next]_vars

\* ------------------------------ the session whose analysis calls succeed
\* The runs of a session in which every analysis call returns and the file,
\* once uploaded, stays in the uploader.
UploadOk ==
    \E read \in Reads(UploadedFile) :
        Run(UploadedFile, read.doc, read.readable, TRUE)

InteractOk ==
    /\ ~rerun
    /\ \E read \in Reads(pdf_file) :
        Run(pdf_file, read.doc, read.readable, TRUE)

AutoRerunOk ==
    /\ rerun
    /\ \E read \in Reads(pdf_file) :
        Run(pdf_file, read.doc, read.readable, TRUE)

NextAnalysesSucceed == UploadOk \/ InteractOk \/ AutoRerunOk

\* Streamlit runs the script again whenever st.rerun() was called: the
\* requested rerun is the only run that is bound to happen.
SpecAnalysesSucceed ==
    Init /\ [][NextAnalysesSucceed]_vars /\ WF_vars(AutoRerunOk)

\* ---------------------------------------------------------- properties
\* cap = min(5, total records), as line 141 computes it.
Cap == Min(BatchCap, Len(drawings_list))

\* C1: in every reachable state the cursor (current_analysis_index) equals
\* the number of results (analyzed_drawings).
C1_CursorIsResultCount ==
    current_analysis_index = Len(analyzed_drawings)

\* C1 is exercised: two results are stored and the last run's analysis failed.
C1_Witness ==
    /\ current_analysis_index = 2
    /\ Len(analyzed_drawings) = 2
    /\ analysis = "error"

\* C2: the cursor never exceeds min(5, records), and no drawing at index 5
\* or higher of the extraction order is passed to the analysis call.
C2_CursorWithinCap ==
    /\ current_analysis_index <= Cap
    /\ \A k \in 1..Len(analyzed_now) :
          \A i \in (BatchCap + 1)..Len(drawings_list) :
              analyzed_now[k] # drawings_list[i]

\* C2 is exercised: more than five records, five analysed, and a later run
\* reported the rest instead of analysing it.
C2_Witness ==
    /\ Len(drawings_list) > BatchCap
    /\ current_analysis_index = BatchCap
    /\ "excess" \in out

\* C3: a run whose analysis call fails leaves the cursor and the results
\* unchanged and does not ask for a rerun.
C3_FailureChangesNothing ==
    [][analysis' = "error" =>
          /\ current_analysis_index' = current_analysis_index
          /\ analyzed_drawings' = analyzed_drawings
          /\ ~rerun']_vars

\* C3 is exercised: the analysis of the drawing at index 2 failed.
C3_Witness ==
    /\ analysis = "error"
    /\ current_analysis_index = 2
    /\ Len(analyzed_now) = 1
    /\ analyzed_now[1] = drawings_list[3]
    /\ ~rerun

\* C4 as stated: a run that starts unprocessed and extracts sets processed,
\* writes the summary and performs no analysis call, changing neither the
\* cursor nor the results.
C4_ExtractionRunAnalysesNothing ==
    [][(~processed /\ extraction' \in {"ok", "open_error", "parse_error"}) =>
          /\ processed'
          /\ "summary" \in out'
          /\ analysis' = "none"
          /\ analyzed_now' = <<>>
          /\ current_analysis_index' = current_analysis_index
          /\ analyzed_drawings' = analyzed_drawings]_vars

\* C4 as amended: a run that starts unprocessed and extracts sets processed
\* and writes the summary, and then goes on in the same run: with at least
\* one record extracted it makes exactly one analysis call, on the first
\* record, and the cursor is 1 if that call succeeded and 0 if it failed;
\* with no record extracted it makes no analysis call.
C4_ExtractionRunGoesOnToAnalyse ==
    [][(~processed /\ extraction' \in {"ok", "open_error", "parse_error"}) =>
          /\ processed'
          /\ "summary" \in out'
          /\ IF drawings_list' # <<>>
             THEN /\ analyzed_now' = <<drawings_list'[1]>>
                  /\ analysis' \in {"ok", "error"}
                  /\ current_analysis_index' = (IF analysis' = "ok" THEN 1 ELSE 0)
                  /\ Len(analyzed_drawings') = current_analysis_index'
             ELSE /\ analyzed_now' = <<>>
                  /\ analysis' = "none"
                  /\ current_analysis_index' = 0
                  /\ analyzed_drawings' = <<>>]_vars

\* C4 is exercised: one run extracted the drawings and analysed the first.
C4_Witness ==
    /\ extraction = "ok"
    /\ "summary" \in out
    /\ analysis = "ok"
    /\ current_analysis_index = 1
    /\ Len(drawings_list) > 1

\* C5: after the run that tried to extract a document that cannot be opened,
\* processed is still false, no records exist and no analysis call was made.
C5_UnopenableStaysUnprocessed ==
    extraction = "open_error" =>
        /\ ~processed
        /\ drawings_list = <<>>
        /\ analysis = "none"

\* C6: results are in extraction order, at most one per run: result i
\* carries the page and drawing number of record i, and no run makes more
\* than one analysis call.
C6_ResultsInExtractionOrder ==
    /\ \A i \in 1..Len(analyzed_drawings) :
          /\ i \in 1..Len(drawings_list)
          /\ analyzed_drawings[i].page = drawings_list[i].page
          /\ analyzed_drawings[i].drawing_number = drawings_list[i].drawing_number
    /\ Len(analyzed_now) <= 1

\* C6 is exercised: three results, spanning two pages.
C6_Witness ==
    /\ Len(analyzed_drawings) = 3
    /\ analyzed_drawings[1].page # analyzed_drawings[3].page
    /\ Len(analyzed_now) = 1

\* C7 as stated: every run, whichever branch it takes, renders the full
\* list of results before it ends.
C7_EveryRunShowsResults ==
    shown = analyzed_drawings

\* C7 as amended: a run with a file in the uploader that does not end in
\* st.rerun() renders the full list of results; a run that ends in
\* st.rerun(), and a run without a file, render no results.
C7_ShownUnlessRerunOrNoFile ==
    IF pdf_file = None \/ rerun
    THEN shown = <<>>
    ELSE shown = analyzed_drawings

\* C7 is exercised: a run stored the second result and rendered both (its
\* analysis was the last of the batch).
C7_Witness ==
    /\ pdf_file # None
    /\ ~rerun
    /\ analysis = "ok"
    /\ Len(analyzed_drawings) = 2
    /\ shown = analyzed_drawings

\* C8: once processed with cursor = cap, further runs leave the results and
\* the cursor unchanged and make no analysis call.
C8_DoneIsStable ==
    [][(processed /\ current_analysis_index = Cap) =>
          /\ analyzed_drawings' = analyzed_drawings
          /\ current_analysis_index' = current_analysis_index
          /\ analysis' = "none"
          /\ analyzed_now' = <<>>]_vars

\* C8 is exercised: a run with the file still supplied found the batch of
\* five complete and analysed nothing.
C8_Witness ==
    /\ processed
    /\ pdf_file # None
    /\ current_analysis_index = Cap
    /\ Cap = BatchCap
    /\ analysis = "none"
    /\ extraction = "none"

\* C9 as stated: with more than five records, the run that appends the
\* fifth result brings the "more drawings exist" message as part of the
\* controller's own progression: it writes it, or asks for the rerun that does.
C9_ExcessFollowsFifthResult ==
    (analysis = "ok" /\ current_analysis_index = BatchCap /\ Len(drawings_list) > BatchCap)
        => ("excess" \in out \/ rerun)

\* C9 as amended: with more than five records, the run that appends the
\* fifth result writes "batch complete", does not write "more drawings
\* exist" and asks for no rerun; "more drawings exist" is written only by a
\* later run that was not asked for by st.rerun(), with a file supplied,
\* that starts with five results and analyses nothing.
C9_ExcessNeedsAnotherRun ==
    [][/\ (analysis' = "ok" /\ current_analysis_index' = BatchCap
                /\ Len(drawings_list') > BatchCap)
            => ("complete" \in out' /\ "excess" \notin out' /\ ~rerun')
       /\ "excess" \in out'
            => /\ ~rerun
               /\ processed
               /\ current_analysis_index = BatchCap
               /\ Len(drawings_list) > BatchCap
               /\ pdf_file' # None
               /\ analysis' = "none"]_vars

\* C9 is exercised: the fifth of six records was just analysed.
C9_Witness ==
    /\ analysis = "ok"
    /\ current_analysis_index = BatchCap
    /\ Len(drawings_list) > BatchCap
    /\ "complete" \in out

\* The pages of the extracted document that the page loop got through.
EnumeratedPages ==
    IF ~pdf_bytes.openable THEN {}
    ELSE IF pdf_bytes.failPage = 0 THEN 1..Len(pdf_bytes.pages)
    ELSE 1..(pdf_bytes.failPage - 1)

\* C10: the extracted records are ordered by (page, drawing number)
\* ascending; a record's drawing number is the 1-based position of its
\* image in the image list of its page; and every image of an enumerated
\* page is there except those that failed to extract.
C10_ExtractOrderAndNumbering ==
    processed =>
        /\ \A i, j \in 1..Len(drawings_list) :
              i < j =>
                 \/ drawings_list[i].page < drawings_list[j].page
                 \/ /\ drawings_list[i].page = drawings_list[j].page
                    /\ drawings_list[i].drawing_number < drawings_list[j].drawing_number
        /\ \A i \in 1..Len(drawings_list) :
              LET d == drawings_list[i]
              IN  /\ d.page \in EnumeratedPages
                  /\ d.drawing_number \in 1..Len(pdf_bytes.pages[d.page])
                  /\ pdf_bytes.pages[d.page][d.drawing_number]
                  /\ d.xref = Xref(d.page - 1, d.drawing_number - 1)
        /\ \A p \in EnumeratedPages :
              \A n \in 1..Len(pdf_bytes.pages[p]) :
                  pdf_bytes.pages[p][n] =>
                      \E i \in 1..Len(drawings_list) :
                          /\ drawings_list[i].page = p
                          /\ drawings_list[i].drawing_number = n

\* C10 is exercised: the second of three images of page 1 failed to extract,
\* the third kept number 3, and page 2 starts again at 1.
C10_Witness ==
    /\ extraction = "ok"
    /\ "image_warning" \in out
    /\ Len(drawings_list) = 3
    /\ drawings_list[1].page = 1 /\ drawings_list[1].drawing_number = 1
    /\ drawings_list[2].page = 1 /\ drawings_list[2].drawing_number = 3
    /\ drawings_list[3].page = 2 /\ drawings_list[3].drawing_number = 1


\* C11: a run whose analysis succeeds asks for a rerun exactly when the
\* incremented cursor is below the cap, and writes "batch complete" exactly
\* when it equals the cap; never both, never neither.
C11_RerunXorComplete ==
    analysis = "ok" =>
        /\ rerun <=> (current_analysis_index < Cap)
        /\ ("complete" \in out) <=> (current_analysis_index = Cap)
        /\ ~(rerun /\ "complete" \in out)
        /\ (rerun \/ "complete" \in out)

\* C11 is exercised: the analysis of the last drawing of a batch of three
\* succeeded (the runs before it asked for reruns).
C11_Witness ==
    /\ analysis = "ok"
    /\ Cap = 3
    /\ current_analysis_index = 3
    /\ "complete" \in out
    /\ ~rerun

\* C12 as stated: a run that starts processed with cursor = cap writes
\* "further drawings exist" exactly when there are more than five records,
\* and with at most five records writes nothing new (nothing besides the
\* results so far or, without a file, the upload prompt).
C12_ExcessIffMoreThanFive ==
    [][(processed /\ current_analysis_index = Cap) =>
          /\ ("excess" \in out') <=> (Len(drawings_list) > BatchCap)
          /\ Len(drawings_list) <= BatchCap
                => out' \subseteq {"results", "upload_prompt"}]_vars

\* C12 as amended: a run with a file supplied that starts processed with
\* cursor = cap writes "further drawings exist" exactly when there are more
\* than five records, and with at most five records writes nothing besides
\* the results; a run without a file writes the upload prompt only; and
\* with at most five records no run ever writes "further drawings exist".
C12_ExcessIffMoreThanFiveWithFile ==
    [][/\ (processed /\ current_analysis_index = Cap /\ pdf_file' # None) =>
             /\ ("excess" \in out') <=> (Len(drawings_list) > BatchCap)
             /\ Len(drawings_list) <= BatchCap => out' \subseteq {"results"}
       /\ pdf_file' = None => out' = {"upload_prompt"}
       /\ Len(drawings_list') <= BatchCap => "excess" \notin out']_vars

\* C12 is exercised: a run with the file supplied found a batch of exactly
\* five of five records complete and wrote nothing but the results.
C12_Witness ==
    /\ processed
    /\ pdf_file # None
    /\ Len(drawings_list) = BatchCap
    /\ current_analysis_index = BatchCap
    /\ analysis = "none"
    /\ extraction = "none"
    /\ out = {"results"}


\* C13: whenever extraction fails with a document-level error (the document
\* cannot be opened, or parsing raises while pages and images are
\* enumerated), the stored records are empty afterwards.
C13_FailedExtractionLeavesNoRecords ==
    extraction \in {"open_error", "parse_error"} => drawings_list = <<>>

\* C15: every analysis call is on the record at the cursor, which is the
\* record after the last stored result; after a failed analysis the next
\* run with the file supplied passes the same record again; and the cursor
\* moves only by one, on a successful analysis.
C15_FailedDrawingIsRetried ==
    [][/\ analyzed_now' # <<>> =>
             /\ Len(analyzed_drawings) < Len(drawings_list')
             /\ analyzed_now' = <<drawings_list'[Len(analyzed_drawings) + 1]>>
       /\ (analysis = "error" /\ pdf_file' # None) => analyzed_now' = analyzed_now
       /\ current_analysis_index' # current_analysis_index =>
             /\ current_analysis_index' = current_analysis_index + 1
             /\ analysis' = "ok"]_vars

\* C15 is exercised: the analysis of record 1 failed while record 2 exists.
C15_Witness ==
    /\ analysis = "error"
    /\ current_analysis_index = 1
    /\ Len(analyzed_drawings) = 1
    /\ Len(drawings_list) > 2
    /\ analyzed_now = <<drawings_list[2]>>

\* C16: once processed is set it stays set, extract_drawings_list is not
\* called again and the stored records are not modified, whatever is
\* uploaded or removed later.
C16_ExtractionOnlyOnce ==
    [][processed =>
          /\ processed'
          /\ extraction' = "none"
          /\ drawings_list' = drawings_list
          /\ pdf_bytes' = pdf_bytes]_vars

\* C16 is exercised: after the extraction the file was removed and a file
\* was supplied again; that run analysed the next stored record.
C16_Witness ==
    /\ processed
    /\ extraction = "none"
    /\ pdf_file # None
    /\ drawings_list # <<>>
    /\ analysis = "error"
    /\ current_analysis_index = 0

\* C17: a run without a file performs no extraction and no analysis call and
\* leaves processed, the records, the cursor and the results unchanged.
C17_NoFileRunChangesNothing ==
    [][pdf_file' = None =>
          /\ extraction' = "none"
          /\ analysis' = "none"
          /\ analyzed_now' = <<>>
          /\ ~rerun'
          /\ processed' = processed
          /\ drawings_list' = drawings_list
          /\ current_analysis_index' = current_analysis_index
          /\ analyzed_drawings' = analyzed_drawings]_vars

\* C17 is exercised: a run without a file in the middle of a batch (one of
\* at least two drawings analysed).
C17_Witness ==
    /\ pdf_file = None
    /\ processed
    /\ current_analysis_index = 1
    /\ Cap > 1
    /\ out = {"upload_prompt"}


\* C14: with every analysis call succeeding and the file kept supplied, once
\* a document with at least one record is extracted a rerun is pending for
\* as long as the cursor is below the cap (no other input is needed), the
\* cursor reaches the cap, and no rerun is asked for at the cap.
C14_AutoAdvanceTerminates ==
    /\ [](processed /\ current_analysis_index < Cap => rerun)
    /\ (processed /\ drawings_list # <<>>) ~> (current_analysis_index = Cap /\ ~rerun)
    /\ [](current_analysis_index = Cap => ~rerun)

\* C14 is exercised: the chain of reruns took a document of more than five
\* records to the cap of five and stopped.
C14_Witness ==
    /\ processed
    /\ Len(drawings_list) > BatchCap
    /\ current_analysis_index = BatchCap
    /\ analysis = "ok"
    /\ "complete" \in out
    /\ ~rerun

====
